---- MODULE Spec2Model ----
(***************************************************************************)
(* Huffman codec of shemei666/huffmanencoding.                             *)
(*                                                                         *)
(* src/Trial.py : get_freq, build_tree, get_codes, encode, decode and the  *)
(*                call sequence of run_huffman (lines 103-108).            *)
(* src/main.py  : huffman_dict, huffman_encode, huffman_decode.            *)
(*                                                                         *)
(* Python values are modelled as follows.  A str is a sequence of one-     *)
(* character strings.  A dict is the sequence of its <<key, value>> items  *)
(* in insertion order (keys unique), which is the order .items() iterates  *)
(* in.  A Node object is a record; its field id is the object's creation   *)
(* number and stands for object identity: no method of the program reads   *)
(* it.  The outcome of a call that may raise is a record [err, val] with   *)
(* no val field when an exception leaves the call.                         *)
(***************************************************************************)
EXTENDS Integers, Sequences, FiniteSets, TLC

\* Longest input text of the pipeline.
MaxLen == 4
\* Longest text handed to encode together with a table built from another text.
MaxOther == 2
\* Longest bit string handed to decode on its own.
MaxBits == 3

Alphabet == {"a", "b", "c", "d"}
Bits == {"0", "1"}

\* All sequences over S of length at most n.
SeqsUpTo(S, n) == UNION {[1..k -> S] : k \in 0..n}

\* Python's None where a Node is expected (left, right, a returned tree).
None == [none |-> TRUE]
\* Python's None in the field ch, which otherwise holds a one-character str.
NoneCh == "None"

\* A local name no assignment has bound yet.
Unset == [unset |-> TRUE]

Ok(v) == [err |-> "none", val |-> v]
Raise(e) == [err |-> e]

---------------------------------------------------------------------------
(* dict *)

DictKeys(d) == {d[i][1] : i \in 1..Len(d)}
DictHas(d, k) == k \in DictKeys(d)
DictGet(d, k) == d[CHOOSE i \in 1..Len(d) : d[i][1] = k][2]
\* d[k] = v : a present key keeps its position, a new key goes last.
DictSet(d, k, v) ==
  IF DictHas(d, k)
  THEN [i \in 1..Len(d) |-> IF d[i][1] = k THEN <<k, v>> ELSE d[i]]
  ELSE Append(d, <<k, v>>)

---------------------------------------------------------------------------
(* Node *)

Node(id, ch, freq, left, right) ==
  [id |-> id, ch |-> ch, freq |-> freq, left |-> left, right |-> right]

\* Node.__lt__ : self.freq < other.freq
Lt(self, other) == self.freq < other.freq

---------------------------------------------------------------------------
(* heapq, on a Python list heap; pos is a 0-based list index, heap[pos] of *)
(* Python is heap[pos + 1] here.                                           *)

At(heap, pos) == heap[pos + 1]
Put(heap, pos, item) == [heap EXCEPT ![pos + 1] = item]

\*  while pos > startpos:
\*      parentpos = (pos - 1) >> 1 ; parent = heap[parentpos]
\*      if newitem < parent: heap[pos] = parent; pos = parentpos; continue
\*      break
\*  heap[pos] = newitem
RECURSIVE SiftDownLoop(_, _, _, _)
SiftDownLoop(heap, startpos, pos, newitem) ==
  IF pos > startpos
  THEN LET parentpos == (pos - 1) \div 2
           parent == At(heap, parentpos)
       IN IF Lt(newitem, parent)
          THEN SiftDownLoop(Put(heap, pos, parent), startpos, parentpos, newitem)
          ELSE Put(heap, pos, newitem)
  ELSE Put(heap, pos, newitem)

siftdown(heap, startpos, pos) == SiftDownLoop(heap, startpos, pos, At(heap, pos))

\*  while childpos < endpos:
\*      rightpos = childpos + 1
\*      if rightpos < endpos and not heap[childpos] < heap[rightpos]:
\*          childpos = rightpos
\*      heap[pos] = heap[childpos] ; pos = childpos ; childpos = 2*pos + 1
\*  heap[pos] = newitem
\*  _siftdown(heap, startpos, pos)
RECURSIVE SiftUpLoop(_, _, _, _)
SiftUpLoop(heap, startpos, pos, newitem) ==
  LET endpos == Len(heap)
      childpos == 2 * pos + 1
  IN IF childpos < endpos
     THEN LET rightpos == childpos + 1
              c == IF rightpos < endpos /\ ~Lt(At(heap, childpos), At(heap, rightpos))
                   THEN rightpos ELSE childpos
          IN SiftUpLoop(Put(heap, pos, At(heap, c)), startpos, c, newitem)
     ELSE siftdown(Put(heap, pos, newitem), startpos, pos)

siftup(heap, pos) == SiftUpLoop(heap, pos, pos, At(heap, pos))

\* for i in reversed(range(n // 2)): _siftup(x, i)
RECURSIVE HeapifyLoop(_, _)
HeapifyLoop(x, i) == IF i < 0 THEN x ELSE HeapifyLoop(siftup(x, i), i - 1)

heapify(x) == HeapifyLoop(x, (Len(x) \div 2) - 1)

\* heappush: heap.append(item); _siftdown(heap, 0, len(heap) - 1)
heappush(heap, item) == siftdown(Append(heap, item), 0, Len(heap))

\* A wrong pop: takes the last list element instead of the root.
heappop_last(heap) ==
  [item |-> heap[Len(heap)], heap |-> SubSeq(heap, 1, Len(heap) - 1)]

\* heappop: lastelt = heap.pop(); if heap: returnitem = heap[0];
\* heap[0] = lastelt; _siftup(heap, 0); return returnitem.  return lastelt
\* Called on a non-empty heap only.  The result is the popped item and the
\* list as the call leaves it.
heappop(heap) ==
  LET lastelt == heap[Len(heap)]
      rest == SubSeq(heap, 1, Len(heap) - 1)
  IN IF rest # <<>>
     THEN [item |-> rest[1], heap |-> siftup(Put(rest, 0, lastelt), 0)]
     ELSE [item |-> lastelt, heap |-> rest]

---------------------------------------------------------------------------
(* Trial.py, steps 1 to 4 *)

\* for ch in text: freq[ch] = freq.get(ch, 0) + 1
get_freq(text) ==
  LET RECURSIVE Loop(_, _)
      Loop(i, freq) ==
        IF i > Len(text) THEN freq
        ELSE LET ch == text[i]
                 old == IF DictHas(freq, ch) THEN DictGet(freq, ch) ELSE 0
             IN Loop(i + 1, DictSet(freq, ch, old + 1))
  IN Loop(1, <<>>)

\* [Node(ch, fr) for ch, fr in freq.items()] : the i-th item becomes the
\* i-th object created.
LeafList(freq) == [i \in 1..Len(freq) |-> Node(i, freq[i][1], freq[i][2], None, None)]

\* A merge that weighs the new node by its first child alone.
Merge_first_weight(id, a, b) == Node(id, NoneCh, a.freq, a, b)

\* A merge that links the first popped node on both sides.
Merge_left_twice(id, a, b) == Node(id, NoneCh, a.freq + b.freq, a, a)

\* Node(None, a.freq + b.freq, a, b)
Merge(id, a, b) == Node(id, NoneCh, a.freq + b.freq, a, b)

\* The recursion of get_codes on the one dict all calls share.  A call with
\* a None node returns at once and leaves the dict alone.
RECURSIVE GetCodesInto(_, _, _)
GetCodesInto(node, prefix, code_dict) ==
  IF node = None THEN code_dict
  ELSE IF node.ch # NoneCh
  THEN DictSet(code_dict, node.ch, IF prefix # <<>> THEN prefix ELSE <<"0">>)
  ELSE GetCodesInto(node.right, Append(prefix, "1"),
                    GetCodesInto(node.left, Append(prefix, "0"), code_dict))

\* A get_codes whose right branch appends "0" as the left one does.
RECURSIVE GetCodesInto_same_bit(_, _, _)
GetCodesInto_same_bit(node, prefix, code_dict) ==
  IF node = None THEN code_dict
  ELSE IF node.ch # NoneCh
  THEN DictSet(code_dict, node.ch, IF prefix # <<>> THEN prefix ELSE <<"0">>)
  ELSE GetCodesInto_same_bit(node.right, Append(prefix, "0"),
                    GetCodesInto_same_bit(node.left, Append(prefix, "0"), code_dict))

get_codes_same_bit(node) ==
  IF node = None THEN Ok(<<>>) ELSE Ok(GetCodesInto_same_bit(node, <<>>, <<>>))

\* A get_codes without the "if not node" test: node.ch of None raises.
get_codes_no_none_test(node) ==
  IF node = None THEN Raise("AttributeError") ELSE Ok(GetCodesInto(node, <<>>, <<>>))

\* get_codes(node) as called from outside: prefix "" and a fresh dict.
get_codes(node) ==
  IF node = None THEN Ok(<<>>) ELSE Ok(GetCodesInto(node, <<>>, <<>>))

\* An encode that looks codes up with code_dict.get(ch, "").
encode_get_default(text, code_dict) ==
  LET RECURSIVE Loop(_, _)
      Loop(i, out) ==
        IF i > Len(text) THEN Ok(out)
        ELSE Loop(i + 1, out \o (IF DictHas(code_dict, text[i])
                                 THEN DictGet(code_dict, text[i]) ELSE <<>>))
  IN Loop(1, <<>>)

\* ''.join(code_dict[ch] for ch in text) : the first absent ch raises
\* KeyError out of the generator and nothing is returned.
encode(text, code_dict) ==
  LET RECURSIVE Loop(_, _)
      Loop(i, out) ==
        IF i > Len(text) THEN Ok(out)
        ELSE IF ~DictHas(code_dict, text[i]) THEN Raise("KeyError")
        ELSE Loop(i + 1, out \o DictGet(code_dict, text[i]))
  IN Loop(1, <<>>)

\* inv = {v: k for k, v in code_dict.items()}
Invert(code_dict) ==
  LET RECURSIVE Loop(_, _)
      Loop(i, inv) ==
        IF i > Len(code_dict) THEN inv
        ELSE Loop(i + 1, DictSet(inv, code_dict[i][2], code_dict[i][1]))
  IN Loop(1, <<>>)

\* The loop of decode; the result holds both locals at the end of input.
\*   for bit in encoded: buf += bit
\*       if buf in inv: dec += inv[buf]; buf = ""
DecodeRun(encoded, code_dict) ==
  LET inv == Invert(code_dict)
      RECURSIVE Loop(_, _, _)
      Loop(i, buf, dec) ==
        IF i > Len(encoded) THEN [buf |-> buf, dec |-> dec]
        ELSE LET nb == Append(buf, encoded[i])
             IN IF DictHas(inv, nb)
                THEN Loop(i + 1, <<>>, Append(dec, DictGet(inv, nb)))
                ELSE Loop(i + 1, nb, dec)
  IN Loop(1, <<>>, <<>>)

\* A decode that never clears buf after a match.
decode_keep_buf(encoded, code_dict) ==
  LET inv == Invert(code_dict)
      RECURSIVE Loop(_, _, _)
      Loop(i, buf, dec) ==
        IF i > Len(encoded) THEN Ok(dec)
        ELSE LET nb == Append(buf, encoded[i])
             IN IF DictHas(inv, nb)
                THEN Loop(i + 1, nb, Append(dec, DictGet(inv, nb)))
                ELSE Loop(i + 1, nb, dec)
  IN Loop(1, <<>>, <<>>)

\* decode returns dec whatever buf holds; it has no raise statement.
decode(encoded, code_dict) == Ok(DecodeRun(encoded, code_dict).dec)

---------------------------------------------------------------------------
(* main.py *)

\* "if node.char:" : None and "" are both false.
Truthy(ch) == ch # NoneCh /\ ch # ""

\* {**A, **B}
DictMerge(A, B) ==
  LET RECURSIVE Loop(_, _)
      Loop(i, d) == IF i > Len(B) THEN d ELSE Loop(i + 1, DictSet(d, B[i][1], B[i][2]))
  IN Loop(1, A)

\* {char: bit + code for char, code in d.items()}
Prefixed(bit, d) == [i \in 1..Len(d) |-> <<d[i][1], <<bit>> \o d[i][2]>>]

RECURSIVE HuffmanDictOf(_)
HuffmanDictOf(node) ==
  IF Truthy(node.ch) THEN << <<node.ch, <<>> >> >>
  ELSE DictMerge(Prefixed("0", HuffmanDictOf(node.left)),
                 Prefixed("1", HuffmanDictOf(node.right)))

\* huffman_dict(node); it reads node.char first, which raises on None.
huffman_dict(node) ==
  IF node = None THEN Raise("AttributeError") ELSE Ok(HuffmanDictOf(node))

\* encoded = ""; for char in text: encoded += dict[char]
huffman_encode(text, dict) ==
  LET RECURSIVE Loop(_, _)
      Loop(i, encoded) ==
        IF i > Len(text) THEN Ok(encoded)
        ELSE IF ~DictHas(dict, text[i]) THEN Raise("KeyError")
        ELSE Loop(i + 1, encoded \o DictGet(dict, text[i]))
  IN Loop(1, <<>>)

\* invert_dict = {value: key ...}; for bit in code: buffer += bit;
\* if buffer in invert_dict: decoded += invert_dict[buffer]; buffer = ""
huffman_decode(code, dict) ==
  LET invert_dict == Invert(dict)
      RECURSIVE Loop(_, _, _)
      Loop(i, buffer, decoded) ==
        IF i > Len(code) THEN Ok(decoded)
        ELSE LET nb == Append(buffer, code[i])
             IN IF DictHas(invert_dict, nb)
                THEN Loop(i + 1, <<>>, Append(decoded, DictGet(invert_dict, nb)))
                ELSE Loop(i + 1, nb, decoded)
  IN Loop(1, <<>>, <<>>)

---------------------------------------------------------------------------
(* State *)

VARIABLES
  text,       \* the input str
  pc,         \* position in the call sequence build / code / encode / decode
  freq,       \* get_freq's dict
  heap,       \* build_tree's list
  nextId,     \* number the next Node created gets
  a, b,       \* build_tree's two popped nodes
  iters,      \* completed iterations of build_tree's while loop
  tree,       \* build_tree's result
  code_dict,  \* get_codes' result
  encoded,    \* encode's result
  decoded,    \* decode's result
  call        \* the last call made on the finished table, with its outcome

vars == <<text, pc, freq, heap, nextId, a, b, iters, tree, code_dict, encoded,
          decoded, call>>

Texts == SeqsUpTo(Alphabet, MaxLen)
OtherTexts == SeqsUpTo(Alphabet, MaxOther)
BitStrings == SeqsUpTo(Bits, MaxBits)

NoCall == [op |-> "none"]

Init ==
  /\ text \in Texts
  /\ pc = "start"
  /\ freq = <<>>
  /\ heap = <<>>
  /\ nextId = 1
  /\ a = Unset
  /\ b = Unset
  /\ iters = 0
  /\ tree = Unset
  /\ code_dict = <<>>
  /\ encoded = <<>>
  /\ decoded = <<>>
  /\ call = NoCall

---------------------------------------------------------------------------
(* build_tree *)

\* freq = get_freq(text)
GetFreq ==
  /\ pc = "start"
  /\ freq' = get_freq(text)
  /\ pc' = "heapify"
  /\ UNCHANGED <<text, heap, nextId, a, b, iters, tree, code_dict, encoded, decoded, call>>

\* heap = [Node(ch, fr) for ch, fr in freq.items()]; heapq.heapify(heap)
BuildHeap ==
  /\ pc = "heapify"
  /\ heap' = heapify(LeafList(freq))
  /\ nextId' = Len(freq) + 1
  /\ pc' = "test"
  /\ UNCHANGED <<text, freq, a, b, iters, tree, code_dict, encoded, decoded, call>>

\* if not heap: return None
ReturnNone ==
  /\ pc = "test"
  /\ heap = <<>>
  /\ tree' = None
  /\ pc' = "tree"
  /\ UNCHANGED <<text, freq, heap, nextId, a, b, iters, code_dict, encoded, decoded, call>>

EnterLoop ==
  /\ pc = "test"
  /\ heap # <<>>
  /\ pc' = "loop"
  /\ UNCHANGED <<text, freq, heap, nextId, a, b, iters, tree, code_dict, encoded, decoded, call>>

\* while len(heap) > 1: a = heapq.heappop(heap)
PopA ==
  /\ pc = "loop"
  /\ Len(heap) > 1
  /\ LET r == heappop(heap) IN a' = r.item /\ heap' = r.heap
  /\ pc' = "pop_b"
  /\ UNCHANGED <<text, freq, nextId, b, iters, tree, code_dict, encoded, decoded, call>>

\* b = heapq.heappop(heap)
PopB ==
  /\ pc = "pop_b"
  /\ LET r == heappop(heap) IN b' = r.item /\ heap' = r.heap
  /\ pc' = "push"
  /\ UNCHANGED <<text, freq, nextId, a, iters, tree, code_dict, encoded, decoded, call>>

\* heapq.heappush(heap, Node(None, a.freq + b.freq, a, b))
Push ==
  /\ pc = "push"
  /\ heap' = heappush(heap, Merge(nextId, a, b))
  /\ nextId' = nextId + 1
  /\ iters' = iters + 1
  /\ pc' = "loop"
  /\ UNCHANGED <<text, freq, a, b, tree, code_dict, encoded, decoded, call>>

\* the loop test fails: return heap[0]
ReturnRoot ==
  /\ pc = "loop"
  /\ ~(Len(heap) > 1)
  /\ tree' = heap[1]
  /\ pc' = "tree"
  /\ UNCHANGED <<text, freq, heap, nextId, a, b, iters, code_dict, encoded, decoded, call>>

---------------------------------------------------------------------------
(* code_dict = get_codes(tree); encoded = encode(text, code_dict);         *)
(* decoded = decode(encoded, code_dict).  An exception ends the sequence.  *)

GetCodes ==
  /\ pc = "tree"
  /\ LET r == get_codes(tree)
     IN IF r.err = "none"
        THEN code_dict' = r.val /\ pc' = "codes"
        ELSE code_dict' = code_dict /\ pc' = "raised"
  /\ UNCHANGED <<text, freq, heap, nextId, a, b, iters, tree, encoded, decoded, call>>

Encode ==
  /\ pc = "codes"
  /\ LET r == encode(text, code_dict)
     IN IF r.err = "none"
        THEN encoded' = r.val /\ pc' = "encoded"
        ELSE encoded' = encoded /\ pc' = "raised"
  /\ UNCHANGED <<text, freq, heap, nextId, a, b, iters, tree, code_dict, decoded, call>>

Decode ==
  /\ pc = "encoded"
  /\ LET r == decode(encoded, code_dict)
     IN IF r.err = "none"
        THEN decoded' = r.val /\ pc' = "decoded"
        ELSE decoded' = decoded /\ pc' = "raised"
  /\ UNCHANGED <<text, freq, heap, nextId, a, b, iters, tree, code_dict, encoded, call>>

---------------------------------------------------------------------------
(* One further call on the finished table and tree. *)

\* encode(s, code_dict) for a text s the table was not built from
CallEncode ==
  /\ pc = "decoded"
  /\ call = NoCall
  /\ \E s \in OtherTexts :
       call' = [op |-> "encode", arg |-> s, res |-> encode(s, code_dict)]
  /\ UNCHANGED <<text, pc, freq, heap, nextId, a, b, iters, tree, code_dict, encoded, decoded>>

\* decode(bits, code_dict) for any bit string; buf is decode's local at the
\* end of its loop
CallDecode ==
  /\ pc = "decoded"
  /\ call = NoCall
  /\ \E bits \in BitStrings :
       call' = [op |-> "decode", arg |-> bits, res |-> decode(bits, code_dict),
                buf |-> DecodeRun(bits, code_dict).buf]
  /\ UNCHANGED <<text, pc, freq, heap, nextId, a, b, iters, tree, code_dict, encoded, decoded>>

\* main.py lines 155-160 on the same tree and text:
\* dict = huffman_dict(tree); encoded = huffman_encode(t, dict);
\* decoded = huffman_decode(encoded, dict)
CallMain ==
  /\ pc = "decoded"
  /\ call = NoCall
  /\ LET d == huffman_dict(tree)
         e == huffman_encode(text, d.val)
         c == huffman_decode(e.val, d.val)
     IN call' = IF d.err # "none" THEN [op |-> "main", dict |-> d]
                ELSE IF e.err # "none" THEN [op |-> "main", dict |-> d, encoded |-> e]
                ELSE [op |-> "main", dict |-> d, encoded |-> e, decoded |-> c]
  /\ UNCHANGED <<text, pc, freq, heap, nextId, a, b, iters, tree, code_dict, encoded, decoded>>

\* main.py's huffman_encode and huffman_decode on the table of get_codes
CallMainCodec ==
  /\ pc = "decoded"
  /\ call = NoCall
  /\ LET e == huffman_encode(text, code_dict)
     IN call' = IF e.err # "none" THEN [op |-> "main_codec", encoded |-> e]
                ELSE [op |-> "main_codec", encoded |-> e,
                      decoded |-> huffman_decode(e.val, code_dict)]
  /\ UNCHANGED <<text, pc, freq, heap, nextId, a, b, iters, tree, code_dict, encoded, decoded>>

Next ==
  \/ GetFreq
  \/ BuildHeap
  \/ ReturnNone
  \/ EnterLoop
  \/ PopA
  \/ PopB
  \/ Push
  \/ ReturnRoot
  \/ GetCodes
  \/ Encode
  \/ Decode
  \/ CallEncode
  \/ CallDecode
  \/ CallMain
  \/ CallMainCodec

Spec == Init /\ [][Next]_vars

\* build_tree is straight-line synchronous code: the interpreter runs its next
\* statement whenever there is one.
BuildTree == GetFreq \/ BuildHeap \/ ReturnNone \/ EnterLoop \/ PopA \/ PopB \/ Push \/ ReturnRoot
FairSpec == Spec /\ WF_vars(BuildTree)

---------------------------------------------------------------------------
(* Vocabulary of the properties *)

AfterBuild == {"tree", "codes", "encoded", "decoded"}
AfterCodes == {"codes", "encoded", "decoded"}

Symbols(t) == {t[i] : i \in 1..Len(t)}
Count(t, ch) == Cardinality({i \in 1..Len(t) : t[i] = ch})
IsPrefix(p, q) == Len(p) <= Len(q) /\ SubSeq(q, 1, Len(p)) = p

PrefixFree(d) == \A i, j \in 1..Len(d) : i # j => ~IsPrefix(d[i][2], d[j][2])

RECURSIVE SumCounts(_)
SumCounts(d) == IF d = <<>> THEN 0 ELSE d[1][2] + SumCounts(Tail(d))

\* The nodes of a tree, and its leaves from left to right.
RECURSIVE NodesOf(_)
NodesOf(n) ==
  IF n = None \/ n = Unset THEN {} ELSE {n} \cup NodesOf(n.left) \cup NodesOf(n.right)

RECURSIVE LeafSeq(_)
LeafSeq(n) ==
  IF n = None THEN <<>>
  ELSE IF n.left = None /\ n.right = None THEN <<n>>
  ELSE LeafSeq(n.left) \o LeafSeq(n.right)

RECURSIVE LeafSum(_)
LeafSum(n) ==
  IF n = None THEN 0
  ELSE IF n.left = None /\ n.right = None THEN n.freq
  ELSE LeafSum(n.left) + LeafSum(n.right)

HeapNodes == {heap[i] : i \in 1..Len(heap)}
\* every Node object alive in the state
LiveNodes == UNION {NodesOf(n) : n \in HeapNodes \cup {a, b, tree}}

\* x comes before y when weights order them, and among equal weights when x
\* was created (inserted) first.
FifoBefore(x, y) == x.freq < y.freq \/ (x.freq = y.freq /\ x.id < y.id)

---------------------------------------------------------------------------
(* Claims *)

\* C1: round trip.  For every text S, the empty one and the one-symbol ones
\* included, with T = get_codes(build_tree(S)) no call of the sequence
\* raises and decode(encode(S, T), T) = S; the same holds of main.py's
\* huffman_encode and huffman_decode on that table T.
C1_RoundTrip ==
  /\ pc # "raised"
  /\ pc = "decoded" => decoded = text
  /\ call.op = "main_codec" =>
       (call.encoded = Ok(encoded) /\ "decoded" \in DOMAIN call /\ call.decoded = Ok(text))

C1_Witness ==
  /\ pc = "decoded"
  /\ Cardinality(Symbols(text)) >= 3
  /\ Len(encoded) > Len(text)
  /\ decoded = text

\* C2: prefix-free.  In the table get_codes makes from build_tree's tree no
\* symbol's code is a prefix of (or equal to) another symbol's code; the
\* same holds of the table huffman_dict makes from that tree.
C2_PrefixFree ==
  /\ pc \in AfterCodes => PrefixFree(code_dict)
  /\ (call.op = "main" /\ call.dict.err = "none") => PrefixFree(call.dict.val)

C2_Witness ==
  /\ pc = "codes"
  /\ Len(code_dict) >= 3
  /\ \E i, j \in 1..Len(code_dict) : Len(code_dict[i][2]) < Len(code_dict[j][2])

\* C3: truncation detection.  When decode's buffer is non-empty (hence
\* unmatched) at the end of the bit string, decode fails with
\* TruncatedStream instead of returning a result.
C3_TruncatedStreamRaised ==
  (call.op = "decode" /\ call.buf # <<>>) => call.res.err = "TruncatedStream"

\* C4: unknown symbol.  encode(symbols, table) with a symbol absent from the
\* table ends in an error and returns no bit sequence.
C4_UnknownSymbol ==
  (call.op = "encode" /\ ~(Symbols(call.arg) \subseteq DictKeys(code_dict)))
    => (call.res.err # "none" /\ "val" \notin DOMAIN call.res)

C4_Witness ==
  /\ call.op = "encode"
  /\ Len(call.arg) = 2
  /\ call.arg[1] \in DictKeys(code_dict)
  /\ call.arg[2] \notin DictKeys(code_dict)
  /\ call.res.err = "KeyError"

\* C5: empty input is a normal path.  For the empty text get_freq gives an
\* empty table, build_tree gives None, get_codes(None) gives an empty table,
\* encode gives an empty bit sequence, decode gives an empty text, and no
\* step raises; encode of an empty text and decode of an empty bit string
\* give an empty result under every table.
C5_EmptyInput ==
  /\ text = <<>> =>
       /\ pc # "raised"
       /\ pc # "start" => freq = <<>>
       /\ pc \notin {"loop", "pop_b", "push"}
       /\ pc \in AfterBuild => tree = None
       /\ pc \in AfterCodes => code_dict = <<>>
       /\ pc \in {"encoded", "decoded"} => encoded = <<>>
       /\ pc = "decoded" => decoded = <<>>
  /\ (call.op \in {"encode", "decode"} /\ call.arg = <<>>) => call.res = Ok(<<>>)

C5_Witness ==
  /\ text = <<>>
  /\ pc = "decoded"
  /\ tree = None
  /\ call.op = "decode"
  /\ call.arg = <<>>

\* C6: every code of a generated table is a non-empty bit string; for a
\* one-symbol alphabet the table is {symbol: "0"} and the encoded length is
\* the text's length.  Stated of get_codes and of huffman_dict.
C6_NonEmptyCodes ==
  /\ pc \in AfterCodes =>
       /\ \A i \in 1..Len(code_dict) : code_dict[i][2] # <<>>
       /\ Len(freq) = 1 => code_dict = << <<text[1], <<"0">> >> >>
  /\ (pc \in {"encoded", "decoded"} /\ Len(freq) = 1) => Len(encoded) = Len(text)
  /\ (call.op = "main" /\ call.dict.err = "none") =>
       \A i \in 1..Len(call.dict.val) : call.dict.val[i][2] # <<>>

\* C7: tie-break by insertion order.  Each node build_tree extracts comes
\* before every node left in the heap by weight, and among equal weights by
\* insertion (creation) order.
C7_InsertionOrderTieBreak ==
  /\ pc = "pop_b" => \A m \in HeapNodes : FifoBefore(a, m)
  /\ pc = "push" => \A m \in HeapNodes : FifoBefore(b, m)

\* C8: weight conservation.  The counts of get_freq's table sum to the
\* text's length, every internal node weighs the sum of its two children,
\* and the root build_tree returns weighs the sum of its leaves' counts,
\* which is the text's length.
C8_WeightConservation ==
  /\ pc # "start" => SumCounts(freq) = Len(text)
  /\ \A n \in LiveNodes : n.ch = NoneCh => n.freq = n.left.freq + n.right.freq
  /\ (pc \in AfterBuild /\ tree # None) =>
       /\ tree.freq = LeafSum(tree)
       /\ tree.freq = Len(text)

C8_Witness ==
  /\ pc = "tree"
  /\ tree # None
  /\ Len(LeafSeq(tree)) >= 3
  /\ tree.freq = MaxLen

\* The loop of build_tree after i iterations on k distinct symbols: the heap
\* holds k - i nodes at the loop head, one and two fewer after the pops, each
\* extracted node weighs no more than any node left in the heap, and the
\* return happens with i = k - 1 and the one node left as the result.
GreedySteps ==
  LET k == Len(freq) IN
  /\ pc = "loop" => (Len(heap) = k - iters /\ Len(heap) >= 1)
  /\ pc = "pop_b" =>
       /\ Len(heap) = k - iters - 1
       /\ Len(heap) >= 1
       /\ \A m \in HeapNodes : a.freq <= m.freq
  /\ pc = "push" =>
       /\ Len(heap) = k - iters - 2
       /\ a.freq <= b.freq
       /\ \A m \in HeapNodes : a.freq <= m.freq /\ b.freq <= m.freq
  /\ (pc \in AfterBuild /\ k >= 1) =>
       /\ iters = k - 1
       /\ heap = <<tree>>

\* C9: greedy construction and termination.  With k >= 1 distinct symbols
\* the heap shrinks by one node per iteration, the two extracted nodes weigh
\* no more than any node left in the heap, and build_tree always terminates,
\* after exactly k - 1 iterations, returning the one node left.
C9_GreedyTermination == []GreedySteps /\ <>(pc \in AfterBuild)

C9_Witness ==
  /\ pc = "tree"
  /\ Len(freq) = 4
  /\ iters = 3

\* C10: tree shape.  In build_tree's tree every internal node has two
\* children and no symbol, every leaf has no child and one symbol, the
\* leaves are one per distinct symbol of the text and carry its count, and
\* the keys of get_codes' table are exactly the text's distinct symbols.
C10_TreeShape ==
  /\ (pc \in AfterBuild /\ tree # None) =>
       /\ \A n \in NodesOf(tree) :
            IF n.ch = NoneCh THEN n.left # None /\ n.right # None
            ELSE n.ch \in Alphabet /\ n.left = None /\ n.right = None
       /\ LET leaves == LeafSeq(tree) IN
            /\ Len(leaves) = Cardinality(Symbols(text))
            /\ {leaves[i].ch : i \in 1..Len(leaves)} = Symbols(text)
            /\ \A i \in 1..Len(leaves) : leaves[i].freq = Count(text, leaves[i].ch)
  /\ pc \in AfterBuild => (tree = None <=> text = <<>>)
  /\ pc \in AfterCodes => DictKeys(code_dict) = Symbols(text)

C10_Witness ==
  /\ pc = "codes"
  /\ Len(LeafSeq(tree)) = 4
  /\ \E n \in NodesOf(tree) : n.ch = NoneCh /\ n.left.ch = NoneCh /\ n.right.ch = NoneCh

====
